---- MODULE Spec2Model ----
(***************************************************************************)
(* State-machine model of the automation control engine:                   *)
(*   - SimpleAppAutomation.run / execute_objectives      (automation.py)   *)
(*   - WorkflowExecutor.execute_objective and                              *)
(*     WorkflowExecutor._execute_objective_actions       (workflow.py)     *)
(*   - ErrorHandler.handle_action_failure and                              *)
(*     ErrorHandler.handle_objective_failure             (error_handler.py)*)
(*   - ConfigManager.get_objectives                      (config_manager.py)*)
(* Every call into the screen, the keyboard or the window system is an     *)
(* environment step whose outcome (true / false / raise) is chosen         *)
(* nondeterministically.  run_log records what the run did, in order, and   *)
(* trace what the objective being executed did; the program's own fields   *)
(* keep the names they have in the source.                                 *)
(*   - WindowManager.prepare_application and its four stages               *)
(*                                                       (window_manager.py)*)
(* Specifications: Spec is one run of SimpleAppAutomation.run,              *)
(* SpecExecute one direct call of execute_objective, SpecHandler one direct *)
(* call of a method of ErrorHandler, SpecPrepare one call of               *)
(* WindowManager.prepare_application on an arbitrary desktop,              *)
(* SpecPrerequisites that call followed by the check of the prerequisite   *)
(* app_maximized, SpecMain the process of main, SpecWait one call of       *)
(* UIDetector.wait_for_element, SpecPolicy one direct call of a policy or  *)
(* failure handler of ErrorHandler, SpecMainFair the process of main in    *)
(* which every statement that can be executed is executed, SpecSelect one  *)
(* run with an objective_ids argument on an instructions file that may     *)
(* hold objectives of another application.                                 *)
(* The model describes the engine with its modules loaded: the annotation  *)
(* "-> RetryPolicy" of ErrorHandler._determine_failure_policy names an     *)
(* undefined symbol and is taken as not evaluated at definition time.      *)
(***************************************************************************)
EXTENDS Integers, Sequences, FiniteSets, TLC

\* ------------------------------------------------------------------ bounds
\* Largest timeout passed to wait_for_element, in poll intervals of 0.5 s
\* (the call of the scenario, timeout = 2 s, is MaxTimeout = 4).
MaxTimeout == 4

\* Longest list of objectives in the instructions file.
MaxObjectives == 2
\* Length of a non-empty action list of an objective.
MaxActions == 3
\* Largest max_retries / retry_count drawn for the failure handler alone.
MaxK == 3

\* ------------------------------------------------------- program constants
\* retry_policies.get("max_retries", 3)
DefaultMaxRetries == 3

\* prepare_application(self, max_retries: int = 3)
DefaultPrepareRetries == 3

\* Python's None / a key that is absent from a dict.
NoneVal == "None"

\* Keys of WorkflowExecutor.function_dispatcher.
function_dispatcher ==
    {"notepad_basic_typing", "notepad_delete_and_close", "notepad_advanced_typing"}

\* ------------------------------------------------------------ input domains
ObjectiveIds == {"notepad_basic_typing", "custom_objective"}

\* The argument objective_ids: None (given is FALSE) or a list of ids, of
\* which only the membership matters.
NoIds == [given |-> FALSE, ids |-> {}]

IdLists == {NoIds} \cup [given : {TRUE}, ids : SUBSET ObjectiveIds]

\* The "supported" key of an objective: true, false, or not there at all.
SupportedFlags == {"true", "false", "missing"}

\* Values of a "retry_policy" / "default_policy" key, one of them unrecognized.
PolicyStrings == {"retry", "throw_error", "rollback", "go_back_one", "bogus", NoneVal}

\* max_retries as configured: none allowed, one allowed, the default.
RetryBudgets == {0, 1, DefaultMaxRetries}

Action(t, p) == [type |-> t, retry_policy |-> p]

\* A declarative action list of MaxActions actions.
FullActionList == [i \in 1..MaxActions |-> Action("type_text", NoneVal)]

\* The objectives an instructions file is drawn from.  has_actions = FALSE is
\* an objective without the "actions" key.  A supported objective has or has
\* not a built-in function, and has no action list, an empty one or a full
\* one; an objective that is not supported (flag false, or no flag) has both
\* a built-in function and a full action list.
\* app is the "app" key; the one objective without it is supported, has no
\* built-in function and no "actions" key.
ObjectiveConfigs ==
    { o \in [id : ObjectiveIds, supported : SupportedFlags, has_actions : BOOLEAN,
             actions : {<< >>, FullActionList}, retry_policy : {NoneVal},
             app : {"Notepad", NoneVal}] :
        /\ (~o.has_actions) => o.actions = << >>
        /\ o.supported # "true" =>
              o.id = "notepad_basic_typing" /\ o.actions = FullActionList
        /\ o.app = NoneVal =>
              o.supported = "true" /\ o.id = "custom_objective" /\ ~o.has_actions }

RECURSIVE SeqsUpTo(_, _)
SeqsUpTo(S, n) ==
    IF n = 0 THEN { << >> }
    ELSE LET shorter == SeqsUpTo(S, n - 1)
         IN  shorter \cup { Append(s, x) : s \in { t \in shorter : Len(t) = n - 1 }, x \in S }

BuiltinOutcomes == {"true", "false", "raise"}
PrereqOutcomes == {"ok", "notmet", "raise"}
StepOutcomes == {"true", "false", "raise"}

\* What SimpleAppAutomation.prepare_application does, seen from run.
PrepareOutcomes == {"true", "false", "raise"}

\* Reading the instructions file in get_objectives: it is loaded, or open()
\* raises an error that is neither FileNotFoundError nor JSONDecodeError.
ParseOutcomes == {"loaded", "unreadable", "raise"}

\* _notify_user_unsupported: the mail is composed ("sent"), notifications
\* are not enabled, no user_email is configured, or composing raises.
NotificationOutcomes == {"sent", "disabled", "unconfigured", "error"}

\* cleanup_screenshots: the files are removed, or os.remove raises inside it.
CleanupOutcomes == {"ok", "error"}

\* ------------------------------------------------ window manager domains
\* Number of windows gw.getWindowsWithTitle(app_name) reports.
WindowCounts == 0..2

\* pyautogui.size()
Screens == { << 100, 100 >>, << 1920, 1080 >> }

\* Lengths around four fifths of n, and n itself.
Near(n) == { (4 * n) \div 5 - 1, (4 * n) \div 5, (4 * n) \div 5 + 1, n }

\* Width and height a window can have on screen scr.
Rects(scr) == Near(scr[1]) \X Near(scr[2])

\* max_retries as passed to prepare_application.
PrepareBudgets == {1, DefaultPrepareRetries}

PopenOutcomes == {"ok", "raise"}
GestureOutcomes == {"ok", "raise"}
GeometryOutcomes == {"ok", "raise"}
TemplateOutcomes == {"true", "false"}

\* Number of verification templates the configuration lists for the app.
TemplateCounts == {0, 1}

\* Matching the configured templates on the screen: one is found, none is,
\* or an error is raised (by the import, the detector or the matching).
MatchOutcomes == {"found", "absent", "raise"}

VARIABLES
    objectives,             \* instructions["objectives"], as loaded
    max_retries,            \* ErrorHandler.max_retries
    pc,                     \* where the run is
    supported_objectives,   \* execute_objectives: indices into objectives
    unsupported_objectives, \* execute_objectives: indices into objectives
    obj_pos,                \* position of the for loop over supported_objectives
    current_objective,      \* WorkflowExecutor.current_objective (index, 0 = None)
    action_history,         \* WorkflowExecutor.action_history (indices of actions)
    act_pos,                \* position of the for loop over the actions
    obj_result,             \* value execute_objective returned
    run_result,             \* value run returned: "none", "true", "false"
    run_log,                \* what the run did so far, in order
    trace,                  \* what the objective being executed did, in order
    h_in,                   \* arguments of a direct call of a method of ErrorHandler
    h_out,                  \* what that call returned and did
    error_handler,          \* WorkflowExecutor.error_handler: "ErrorHandler" or None
    app_name,               \* WindowManager.app_name
    app_path,               \* WindowManager.app_path
    current_window,         \* WindowManager.current_window (handle, 0 = None)
    prepare_max_retries,    \* argument max_retries of prepare_application
    windows,                \* environment: windows the title query reports
    process_running,        \* environment: a process of that name is listed
    spawned,                \* environment: processes started by subprocess.Popen
    window_rect,            \* environment: width and height of the window
    screen,                 \* environment: width and height of the screen
    config_file,            \* environment: the configuration file, as ConfigManager finds it
    app_entry,              \* environment: the entry of the application in that file
    exit_status,            \* status the process exited with, -1 while it runs
    objective_ids,          \* argument objective_ids of run, None or a list of ids
    clock,                  \* environment: time.time(), in poll intervals
    start_time,             \* wait_for_element: start_time
    timeout,                \* wait_for_element: argument timeout, in poll intervals
    location                \* wait_for_element: value returned, "none" before

window_vars == << app_name, app_path, current_window, prepare_max_retries, windows,
                  process_running, spawned, window_rect, screen >>

main_vars == << config_file, app_entry, exit_status, objective_ids >>

wait_vars == << clock, start_time, timeout, location >>

vars == << objectives, max_retries, pc, supported_objectives, unsupported_objectives,
           obj_pos, current_objective, action_history, act_pos, obj_result,
           run_result, run_log, trace, h_in, h_out, error_handler, window_vars,
           main_vars, wait_vars >>

\* ------------------------------------------------------------------ trace
Ev(op, obj, act, res) == [op |-> op, obj |-> obj, act |-> act, res |-> res]

\* Positions of the trace holding an event of kind op.
At(op) == { n \in 1..Len(trace) : trace[n].op = op }

\* Positions of run_log holding an event of kind op.
RunAt(op) == { n \in 1..Len(run_log) : run_log[n].op = op }

NoHandlerCall == [action |-> Action("type_text", NoneVal), objective_policy |-> NoneVal,
                  default_policy |-> NoneVal, retry_count |-> 0]
NoHandlerResult == [called |-> FALSE, retry |-> FALSE, slept |-> FALSE, notified |-> FALSE]

\* ------------------------------------------------ ConfigManager.get_objectives
\* Mutant: the default of the lookup is True, objective.get("supported", True).
IsSupported_DefaultTrue(o) == o.supported # "false"

\* objective.get("supported", False)
IsSupported(o) == o.supported = "true"

Indices(objs) == [i \in 1..Len(objs) |-> i]

\* if objective_ids: objectives = [obj for obj in objectives
\*                                 if obj["id"] in objective_ids]
\* None and the empty list are both false in the condition.
select_objectives(objs, ids) ==
    IF ids.given /\ ids.ids # {}
    THEN SelectSeq(Indices(objs), LAMBDA i : objs[i].id \in ids.ids)
    ELSE Indices(objs)

get_objectives(objs, ids) ==
    LET selected == select_objectives(objs, ids)
    IN  [supported   |-> SelectSeq(selected, LAMBDA i : IsSupported(objs[i])),
         unsupported |-> SelectSeq(selected, LAMBDA i : ~IsSupported(objs[i]))]

\* objective.get("actions", [])
ActionsOf(o) == IF o.has_actions THEN o.actions ELSE << >>

\* ----------------------------------------- ErrorHandler.handle_action_failure
\* The decision and the side effects of one call: retry = the value returned,
\* slept = time.sleep(retry_delay) was called, notified = the developer
\* notification was dispatched.
\* Mutant: the budget test is off by one, retry_count <= self.max_retries.
handle_action_failure_OffByOne(action, history, objective, retry_count) ==
    IF retry_count <= max_retries
    THEN [called |-> TRUE, retry |-> TRUE, slept |-> TRUE, notified |-> FALSE]
    ELSE [called |-> TRUE, retry |-> FALSE, slept |-> FALSE, notified |-> TRUE]

handle_action_failure(action, history, objective, retry_count) ==
    IF retry_count < max_retries
    THEN [called |-> TRUE, retry |-> TRUE, slept |-> TRUE, notified |-> FALSE]
    ELSE [called |-> TRUE, retry |-> FALSE, slept |-> FALSE, notified |-> TRUE]

\* The events one handle_action_failure call leaves in the trace.
FailureEvents(k, i, d) ==
    << Ev("handle_action_failure", k, i, IF d.retry THEN "retry" ELSE "stop") >>
    \o (IF d.slept THEN << Ev("sleep", k, i, "retry_delay") >> ELSE << >>)

\* The call of _notify_developer_support it makes, if any, in run_log.
FailureNotifications(k, i, d) ==
    IF d.notified THEN << Ev("notify_developer", k, i, "action") >> ELSE << >>

\* --------------------------------------- ErrorHandler.handle_objective_failure
\* Notifies the developer and returns False.
handle_objective_failure == FALSE

\* ----------------------------------------------------------------- Init
\* The window manager of a specification that does not step through it.
WindowIdle ==
    /\ app_name = "Notepad"
    /\ app_path = "notepad.exe"
    /\ current_window = 0
    /\ prepare_max_retries = DefaultPrepareRetries
    /\ windows = 0
    /\ process_running = FALSE
    /\ spawned = 0
    /\ window_rect = << 0, 0 >>
    /\ screen = << 100, 100 >>

\* The process of a specification that does not step through main.
MainIdle ==
    /\ config_file = "valid"
    /\ app_entry = "complete"
    /\ exit_status = -1
    /\ objective_ids = NoIds

\* The detector of a specification that does not wait for an element.
WaitIdle ==
    /\ clock = 0
    /\ start_time = 0
    /\ timeout = 0
    /\ location = "none"

\* The engine of a specification that does not run objectives.
EngineIdle ==
    /\ objectives = << >>
    /\ max_retries = DefaultMaxRetries
    /\ supported_objectives = << >>
    /\ unsupported_objectives = << >>
    /\ obj_pos = 0
    /\ current_objective = 0
    /\ act_pos = 0
    /\ obj_result = FALSE
    /\ run_result = "none"
    /\ error_handler = "ErrorHandler"

\* A run of SimpleAppAutomation.run on an instructions file of at most
\* MaxObjectives objectives.
Init ==
    /\ objectives \in SeqsUpTo(ObjectiveConfigs, MaxObjectives)
    /\ max_retries \in RetryBudgets
    /\ pc = "run_start"
    /\ supported_objectives = << >>
    /\ unsupported_objectives = << >>
    /\ obj_pos = 0
    /\ current_objective = 0
    /\ action_history = << >>
    /\ act_pos = 0
    /\ obj_result = FALSE
    /\ run_result = "none"
    /\ run_log = << >>
    /\ trace = << >>
    /\ h_in = NoHandlerCall
    /\ h_out = NoHandlerResult
    /\ error_handler = "ErrorHandler"
    /\ WindowIdle
    /\ MainIdle
    /\ WaitIdle

config_vars == << objectives, max_retries, h_in, h_out, error_handler, window_vars,
                 main_vars, wait_vars >>

\* ------------------------------------------------- SimpleAppAutomation.run
\* Mutant: run does not test what prepare_application returned.
AfterPrepare_Unchecked(outcome) ==
    IF outcome = "raise" THEN "exception" ELSE "execute_objectives"

\* if not self.prepare_application(): return False
AfterPrepare(outcome) ==
    CASE outcome = "true" -> "execute_objectives"
      [] outcome = "false" -> "return_false"
      [] OTHER -> "exception"

\* Mutant: run cleans up whatever execute_objectives returned.
AfterExecuteObjectives_AlwaysCleanup(ok) == "cleanup"

\* if not self.execute_objectives(objective_ids): return False; else the
\* cleanup follows.
AfterExecuteObjectives(ok) == IF ok THEN "cleanup" ELSE "run_returned"

\* execute_objectives returns ok to run.
ExecuteObjectivesReturns(ok) == Ev("execute_objectives", 0, 0, IF ok THEN "true" ELSE "false")

\* Step 1 of run: prepare_application returns true or false, or an error
\* leaves it (launch_app imports main outside of any try).
Prepare(outcome) ==
    /\ pc = "run_start"
    /\ CASE AfterPrepare(outcome) = "execute_objectives" ->
              /\ run_log' = Append(run_log, Ev("prepare", 0, 0, outcome))
              /\ pc' = "execute_objectives"
              /\ run_result' = run_result
         [] AfterPrepare(outcome) = "return_false" ->
              /\ run_log' = Append(run_log, Ev("prepare", 0, 0, outcome))
              /\ pc' = "run_returned"
              /\ run_result' = "false"
         [] OTHER ->
              /\ run_log' = run_log \o << Ev("prepare", 0, 0, outcome),
                                          Ev("raise", 0, 0, "ImportError") >>
              /\ pc' = "exception"
              /\ run_result' = run_result
    /\ UNCHANGED << config_vars, supported_objectives, unsupported_objectives, obj_pos,
                    current_objective, action_history, act_pos, obj_result, trace >>

\* ------------------------------------ ErrorHandler.handle_unsupported_objectives
\* The value _notify_user_unsupported returns.
notify_user_unsupported(notification) == notification = "sent"

\* Mutant: the handler returns what the notification returned.
handle_unsupported_objectives_ReturnsNotification(unsupported, notification) ==
    IF unsupported = << >> THEN TRUE ELSE notify_user_unsupported(notification)

\* Notifies the user and returns True, whatever the notification returned.
handle_unsupported_objectives(unsupported, notification) ==
    IF unsupported = << >> THEN TRUE ELSE TRUE

\* The list get_objectives works on: the objectives of the instructions
\* file, or the empty list it substitutes when open or json.load raised
\* FileNotFoundError or JSONDecodeError.
LoadedObjectives(parse) == IF parse = "unreadable" THEN << >> ELSE objectives

\* execute_objectives up to its for loop: parse, report the unsupported
\* objectives, return True when nothing is supported.
ExecuteObjectivesBegin(parse, notification) ==
    /\ pc = "execute_objectives"
    /\ IF parse = "raise"
       THEN /\ run_log' = run_log \o << Ev("parse_objectives", 0, 0, parse),
                                        Ev("raise", 0, 0, "OSError") >>
            /\ pc' = "exception"
            /\ UNCHANGED << supported_objectives, unsupported_objectives, obj_pos,
                            run_result >>
       ELSE LET parsed == get_objectives(LoadedObjectives(parse), objective_ids)
                n == Len(parsed.unsupported)
                go_on == handle_unsupported_objectives(parsed.unsupported, notification)
            IN  /\ supported_objectives' = parsed.supported
                /\ unsupported_objectives' = parsed.unsupported
                /\ obj_pos' = 1
                /\ run_log' = run_log \o << Ev("parse_objectives", 0, 0, parse) >> \o
                     (IF parsed.unsupported # << >>
                      THEN << Ev("notify_user_unsupported", 0, n, notification),
                              Ev("handle_unsupported_objectives", 0, n,
                                 IF go_on THEN "true" ELSE "false") >>
                      ELSE << >>) \o
                     (IF parsed.unsupported # << >> /\ ~go_on
                      THEN << ExecuteObjectivesReturns(FALSE) >>
                      ELSE IF parsed.supported = << >>
                      THEN << ExecuteObjectivesReturns(TRUE) >>
                      ELSE << >>)
                /\ IF parsed.unsupported # << >> /\ ~go_on
                   THEN /\ pc' = AfterExecuteObjectives(FALSE)
                        /\ run_result' = IF AfterExecuteObjectives(FALSE) = "run_returned"
                                         THEN "false" ELSE run_result
                   ELSE /\ pc' = IF parsed.supported = << >>
                                 THEN AfterExecuteObjectives(TRUE)
                                 ELSE "objective_loop"
                        /\ run_result' = run_result
    /\ UNCHANGED << config_vars, current_objective, action_history, act_pos,
                    obj_result, trace >>

\* ------------------------------------------ WorkflowExecutor.execute_objective
\* Mutant: a built-in that returns false fails the objective at once, and
\* the try has no except clause.
AfterBuiltin_NoFallback(outcome) ==
    CASE outcome = "true" -> "return_true"
      [] outcome = "false" -> "return_false"
      [] OTHER -> "propagate"

\* What execute_objective does with the outcome of the built-in function.
AfterBuiltin(outcome) ==
    IF outcome = "true" THEN "return_true" ELSE "fallback"

\* The head of execute_objective, called by the for loop of execute_objectives.
\* Mutant: execute_objective keeps the history of the objective before.
reset_action_history_Kept == action_history

\* self.action_history = [] at the start of execute_objective.
reset_action_history == << >>

StartObjective ==
    /\ pc = "objective_loop"
    /\ obj_pos <= Len(supported_objectives)
    /\ LET k == supported_objectives[obj_pos]
           o == objectives[k]
       IN  /\ current_objective' = k
           /\ action_history' = reset_action_history
           /\ trace' = << >>
           /\ CASE o.app = NoneVal ->
                     \* print(f"App: {objective['app']}")
                     /\ run_log' = run_log \o << Ev("execute_objective", k, 0, ""),
                                                 Ev("raise", k, 0, "KeyError") >>
                     /\ pc' = "exception"
                     /\ UNCHANGED << act_pos, obj_result >>
                [] o.app # NoneVal /\ ~IsSupported(o) /\ error_handler # NoneVal ->
                     \* error_handler.send_notification is no method of ErrorHandler
                     /\ run_log' = run_log \o << Ev("execute_objective", k, 0, ""),
                                                 Ev("raise", k, 0, "AttributeError") >>
                     /\ pc' = "exception"
                     /\ UNCHANGED << act_pos, obj_result >>
                [] o.app # NoneVal /\ ~IsSupported(o) /\ error_handler = NoneVal ->
                     /\ run_log' = Append(run_log, Ev("execute_objective", k, 0, ""))
                     /\ pc' = "objective_returned"
                     /\ obj_result' = FALSE
                     /\ act_pos' = act_pos
                [] OTHER ->
                     /\ run_log' = Append(run_log, Ev("execute_objective", k, 0, ""))
                     /\ pc' = IF o.id \in function_dispatcher THEN "builtin"
                              ELSE "action_loop"
                     /\ act_pos' = 1
                     /\ obj_result' = obj_result
    /\ UNCHANGED << config_vars, supported_objectives, unsupported_objectives, obj_pos,
                    run_result >>

\* function = self.function_dispatcher[objective_id]; result = function()
DispatchBuiltin(outcome) ==
    /\ pc = "builtin"
    /\ trace' = Append(trace, Ev("builtin", current_objective, 0, outcome))
    \* The source has the first two arms; the last two say what a decision to
    \* fail at once, or not to catch, would do.
    /\ CASE AfterBuiltin(outcome) = "return_true" ->
              /\ obj_result' = TRUE
              /\ pc' = "objective_returned"
              /\ run_result' = run_result
         [] AfterBuiltin(outcome) = "fallback" ->
              /\ obj_result' = obj_result
              /\ pc' = "action_loop"
              /\ run_result' = run_result
         [] AfterBuiltin(outcome) = "return_false" ->
              /\ obj_result' = FALSE
              /\ pc' = "objective_returned"
              /\ run_result' = run_result
         [] OTHER -> \* the exception leaves execute_objective
              /\ obj_result' = obj_result
              /\ pc' = "exception"
              /\ run_result' = run_result
    /\ UNCHANGED << config_vars, supported_objectives, unsupported_objectives, obj_pos,
                    current_objective, action_history, act_pos, run_log >>

\* ---------------------------------- WorkflowExecutor._execute_objective_actions
CurrentActions == ActionsOf(objectives[current_objective])

\* What the loop does with the outcome of _check_prerequisites.
OnPrerequisites(outcome) ==
    CASE outcome = "ok" -> "continue"
      [] outcome = "notmet" -> "return_false"
      [] OTHER -> "handle_failure"

\* What the loop does with the outcome of _execute_action.
OnDispatch(outcome) ==
    IF outcome = "true" THEN "continue" ELSE "handle_failure"

\* Mutant: the result of the verification is not tested.
OnVerification_Ignored(outcome) ==
    IF outcome = "raise" THEN "handle_failure" ELSE "continue"

\* What the loop does with the outcome of _verify_action_completion.
OnVerification(outcome) ==
    CASE outcome = "true" -> "continue"
      [] outcome = "false" -> "return_false"
      [] OTHER -> "handle_failure"

\* _execute_objective_actions returns value v on objective k.
ActionsReturn(k, v) == Ev("actions_return", k, 0, IF v THEN "true" ELSE "false")

\* One step of the loop body on action act_pos: the event, then what the
\* decision asks for.  next_pc is where "continue" leads.
ActionStep(op, outcome, decision, next_pc) ==
    LET k == current_objective
        i == act_pos
        ev == Ev(op, k, i, outcome)
        d == handle_action_failure(CurrentActions[i], action_history, objectives[k], 0)
    IN  CASE decision = "continue" ->
               /\ trace' = Append(trace, ev)
               /\ run_log' = run_log
               /\ pc' = next_pc
               /\ obj_result' = obj_result
          [] decision = "return_false" ->
               /\ trace' = trace \o << ev, ActionsReturn(k, FALSE) >>
               /\ run_log' = run_log
               /\ pc' = "objective_returned"
               /\ obj_result' = FALSE
          [] decision = "handle_failure" /\ error_handler = NoneVal ->
               \* self.error_handler is None: the call raises AttributeError,
               \* in the try and once more in its except clause
               /\ trace' = Append(trace, ev)
               /\ run_log' = Append(run_log, Ev("raise", k, i, "AttributeError"))
               /\ pc' = "exception"
               /\ obj_result' = obj_result
          [] OTHER -> \* return self.error_handler.handle_action_failure(...)
               /\ trace' = Append(trace, ev) \o FailureEvents(k, i, d)
                                \o << ActionsReturn(k, d.retry) >>
               /\ run_log' = run_log \o FailureNotifications(k, i, d)
               /\ pc' = "objective_returned"
               /\ obj_result' = d.retry

\* The for loop is over: "completed successfully", return True.
ActionsExhausted ==
    /\ pc = "action_loop"
    /\ act_pos > Len(CurrentActions)
    /\ trace' = Append(trace, ActionsReturn(current_objective, TRUE))
    /\ obj_result' = TRUE
    /\ pc' = "objective_returned"
    /\ UNCHANGED << config_vars, supported_objectives, unsupported_objectives, obj_pos,
                    current_objective, action_history, act_pos, run_result, run_log >>

CheckPrerequisites(outcome) ==
    /\ pc = "action_loop"
    /\ act_pos <= Len(CurrentActions)
    /\ ActionStep("prereq", outcome, OnPrerequisites(outcome), "dispatch")
    /\ UNCHANGED << config_vars, supported_objectives, unsupported_objectives, obj_pos,
                    current_objective, action_history, act_pos, run_result >>

ExecuteAction(outcome) ==
    /\ pc = "dispatch"
    /\ ActionStep("dispatch", outcome, OnDispatch(outcome), "verify")
    /\ UNCHANGED << config_vars, supported_objectives, unsupported_objectives, obj_pos,
                    current_objective, action_history, act_pos, run_result >>

VerifyActionCompletion(outcome) ==
    /\ pc = "verify"
    /\ ActionStep("verify", outcome, OnVerification(outcome), "action_loop")
    /\ IF OnVerification(outcome) = "continue"
       THEN /\ action_history' = Append(action_history, act_pos)
            /\ act_pos' = act_pos + 1
       ELSE UNCHANGED << action_history, act_pos >>
    /\ UNCHANGED << config_vars, supported_objectives, unsupported_objectives, obj_pos,
                    current_objective, run_result >>

\* --------------------------------- execute_objectives, after execute_objective
ObjectiveReturns ==
    /\ pc = "objective_returned"
    /\ LET k == current_objective
       IN  IF obj_result
           THEN /\ run_log' = Append(run_log, Ev("objective_result", k, 0, "true"))
                /\ obj_pos' = obj_pos + 1
                /\ pc' = "objective_loop"
                /\ run_result' = run_result
           ELSE /\ run_log' = run_log \o << Ev("objective_result", k, 0, "false"),
                                            Ev("handle_objective_failure", k, 0, ""),
                                            Ev("notify_developer", k, 0, "objective") >>
                                    \o (IF ~handle_objective_failure
                                        THEN << ExecuteObjectivesReturns(FALSE) >>
                                        ELSE << >>)
                /\ IF ~handle_objective_failure
                   THEN /\ pc' = AfterExecuteObjectives(FALSE)
                        /\ run_result' = IF AfterExecuteObjectives(FALSE) = "run_returned"
                                         THEN "false" ELSE run_result
                        /\ obj_pos' = obj_pos
                   ELSE /\ pc' = "objective_loop"
                        /\ run_result' = run_result
                        /\ obj_pos' = obj_pos + 1
    /\ UNCHANGED << config_vars, supported_objectives, unsupported_objectives,
                    current_objective, action_history, act_pos, obj_result, trace >>

\* The for loop of execute_objectives is over: return True.
AllObjectivesDone ==
    /\ pc = "objective_loop"
    /\ obj_pos > Len(supported_objectives)
    /\ pc' = AfterExecuteObjectives(TRUE)
    /\ run_log' = Append(run_log, ExecuteObjectivesReturns(TRUE))
    /\ UNCHANGED << config_vars, supported_objectives, unsupported_objectives, obj_pos,
                    current_objective, action_history, act_pos, obj_result, run_result,
                    trace >>

\* run, after execute_objectives returned True: cleanup, return True.
\* cleanup_screenshots catches what os.remove raises and returns normally.
Cleanup(outcome) ==
    /\ pc = "cleanup"
    /\ run_log' = Append(run_log, Ev("cleanup_screenshots", 0, 0, outcome))
    /\ run_result' = "true"
    /\ pc' = "run_returned"
    /\ UNCHANGED << config_vars, supported_objectives, unsupported_objectives, obj_pos,
                    current_objective, action_history, act_pos, obj_result, trace >>

\* Mutant: run has no except clause.
OnRunException_Propagate == "propagate"

\* except Exception as e: log_error(...); return False
OnRunException == "return_false"

\* An exception has reached the try block of run.
RunExcept ==
    /\ pc = "exception"
    /\ pc' = "run_returned"
    /\ IF OnRunException = "return_false"
       THEN /\ run_log' = Append(run_log, Ev("log_error", 0, 0, "AUTOMATION_ERROR"))
            /\ run_result' = "false"
       ELSE /\ run_log' = run_log
            /\ run_result' = "raised"
    /\ UNCHANGED << config_vars, supported_objectives, unsupported_objectives, obj_pos,
                    current_objective, action_history, act_pos, obj_result, trace >>

Next ==
    \/ \E outcome \in PrepareOutcomes : Prepare(outcome)
    \/ \E parse \in ParseOutcomes, notification \in NotificationOutcomes :
          ExecuteObjectivesBegin(parse, notification)
    \/ StartObjective
    \/ \E outcome \in BuiltinOutcomes : DispatchBuiltin(outcome)
    \/ ActionsExhausted
    \/ \E outcome \in PrereqOutcomes : CheckPrerequisites(outcome)
    \/ \E outcome \in StepOutcomes : ExecuteAction(outcome)
    \/ \E outcome \in StepOutcomes : VerifyActionCompletion(outcome)
    \/ ObjectiveReturns
    \/ AllObjectivesDone
    \/ \E outcome \in CleanupOutcomes : Cleanup(outcome)
    \/ RunExcept

Spec == Init /\ [][Next]_vars

\* ------------------------------------- run with a selection of objectives
\* An objective of the instructions file that is written for another
\* application than the one the run prepares.
OtherAppObjective ==
    [id |-> "custom_objective", supported |-> "true", has_actions |-> TRUE,
     actions |-> FullActionList, retry_policy |-> NoneVal, app |-> "Calculator"]

\* run(objective_ids) on an instructions file that may hold objectives of
\* another application.
InitSelect ==
    /\ objectives \in SeqsUpTo(ObjectiveConfigs \cup {OtherAppObjective}, MaxObjectives)
    /\ max_retries = DefaultMaxRetries
    /\ pc = "run_start"
    /\ supported_objectives = << >>
    /\ unsupported_objectives = << >>
    /\ obj_pos = 0
    /\ current_objective = 0
    /\ action_history = << >>
    /\ act_pos = 0
    /\ obj_result = FALSE
    /\ run_result = "none"
    /\ run_log = << >>
    /\ trace = << >>
    /\ h_in = NoHandlerCall
    /\ h_out = NoHandlerResult
    /\ error_handler = "ErrorHandler"
    /\ WindowIdle
    /\ config_file = "valid"
    /\ app_entry = "complete"
    /\ exit_status = -1
    /\ objective_ids \in IdLists
    /\ WaitIdle

SpecSelect == InitSelect /\ [][Next]_vars

\* ------------------------------------- handle_action_failure, called directly
\* The arguments and the configuration of one call.
InitHandler ==
    /\ objectives = << >>
    /\ max_retries \in 0..MaxK
    /\ pc = "handler_call"
    /\ supported_objectives = << >>
    /\ unsupported_objectives = << >>
    /\ obj_pos = 0
    /\ current_objective = 0
    /\ action_history = << >>
    /\ act_pos = 0
    /\ obj_result = FALSE
    /\ run_result = "none"
    /\ run_log = << >>
    /\ trace = << >>
    /\ h_in \in [action : { Action("type_text", p) : p \in PolicyStrings },
                 objective_policy : PolicyStrings,
                 default_policy : PolicyStrings,
                 retry_count : 0..(MaxK + 1)]
    /\ h_out = NoHandlerResult
    /\ error_handler = "ErrorHandler"
    /\ WindowIdle
    /\ MainIdle
    /\ WaitIdle

CallHandleActionFailure ==
    /\ pc = "handler_call"
    /\ h_out' = handle_action_failure(h_in.action, << >>,
                                      [id |-> "custom_objective", supported |-> "true",
                                       has_actions |-> TRUE, actions |-> << h_in.action >>,
                                       retry_policy |-> h_in.objective_policy,
                                       app |-> "Notepad"],
                                      h_in.retry_count)
    /\ pc' = "handler_returned"
    /\ UNCHANGED << objectives, max_retries, supported_objectives, unsupported_objectives,
                    obj_pos, current_objective, action_history, act_pos, obj_result,
                    run_result, run_log, trace, h_in, error_handler, window_vars,
                    main_vars, wait_vars >>

\* -------------------------------------- ErrorHandler._determine_failure_policy
\* The expression RetryPolicy(value).  No module of the program defines or
\* imports the name RetryPolicy, so evaluating it raises NameError, which
\* no "except ValueError" clause catches.
RetryPolicy(value) == "NameError"

\* The expression RetryPolicy.THROW_ERROR, for the same reason.
RetryPolicy_THROW_ERROR == "NameError"

\* What _determine_failure_policy returns, or the name of the error that
\* leaves it.  Each tier is tried in a try whose except clause lets a
\* ValueError pass to the next tier.
determine_failure_policy(action, objective, default_policy) ==
    LET action_policy == action.retry_policy
        objective_policy == objective.retry_policy
        configured == IF default_policy = NoneVal THEN "throw_error" ELSE default_policy
    IN  IF action_policy # NoneVal /\ RetryPolicy(action_policy) # "ValueError"
        THEN RetryPolicy(action_policy)
        ELSE IF objective_policy # NoneVal /\ RetryPolicy(objective_policy) # "ValueError"
        THEN RetryPolicy(objective_policy)
        ELSE IF RetryPolicy(configured) # "ValueError"
        THEN RetryPolicy(configured)
        ELSE RetryPolicy_THROW_ERROR

\* A direct call of _determine_failure_policy on the same arguments.
CallDetermineFailurePolicy ==
    /\ pc = "handler_call"
    /\ h_out' = [policy |-> determine_failure_policy(
                               h_in.action,
                               [retry_policy |-> h_in.objective_policy],
                               h_in.default_policy)]
    /\ pc' = "policy_returned"
    /\ UNCHANGED << objectives, max_retries, supported_objectives, unsupported_objectives,
                    obj_pos, current_objective, action_history, act_pos, obj_result,
                    run_result, run_log, trace, h_in, error_handler, window_vars,
                    main_vars, wait_vars >>

NextHandler ==
    \/ CallHandleActionFailure
    \/ CallDetermineFailurePolicy

SpecHandler == InitHandler /\ [][NextHandler]_vars

\* ------------------------------------------------------------ WindowManager
\* The stages of prepare_application, in the order of its source; pc holds
\* the name of the stage that runs next.
Stages == << "launch_app", "focus_window", "maximize_window", "verify_window_maximized" >>

\* Number of windows get_existing_windows returns: none without an app_name,
\* else what the title query reports (an error of the query is caught and
\* reported as no window).
get_existing_windows == IF app_name = NoneVal THEN 0 ELSE windows

\* Mutant: launch_app does not ask whether the process is already running.
launch_app_NoProcessCheck ==
    IF app_name = NoneVal \/ app_path = NoneVal THEN "not_configured"
    ELSE IF get_existing_windows > 0 THEN "attach_window"
    ELSE "spawn"

\* What launch_app does in the present state of the desktop.
launch_app ==
    IF app_name = NoneVal \/ app_path = NoneVal THEN "not_configured"
    ELSE IF get_existing_windows > 0 THEN "attach_window"
    ELSE IF process_running THEN "attach_process"
    ELSE "spawn"

\* Mutant: the result of maximize_window is not tested.
prepare_application_MaximizeUnchecked(stage, ok) ==
    IF ~ok /\ stage # 3 THEN "return_false"
    ELSE IF stage = Len(Stages) THEN "return_true"
    ELSE "next_stage"

\* What prepare_application does when stage number stage has returned ok.
prepare_application(stage, ok) ==
    IF ~ok THEN "return_false"
    ELSE IF stage = Len(Stages) THEN "return_true"
    ELSE "next_stage"

\* Stage number stage returns ok to prepare_application; events are what the
\* stage itself logged before.
StageReturns(stage, ok, events) ==
    LET to == prepare_application(stage, ok)
    IN  /\ run_log' = run_log \o events
                        \o << Ev(Stages[stage], 0, 0, IF ok THEN "true" ELSE "false") >>
        /\ CASE to = "return_false" -> pc' = "prepare_returned" /\ run_result' = "false"
             [] to = "return_true" -> pc' = "prepare_returned" /\ run_result' = "true"
             [] OTHER -> pc' = Stages[stage + 1] /\ run_result' = run_result

run_vars == << objectives, max_retries, supported_objectives, unsupported_objectives,
              obj_pos, current_objective, action_history, act_pos, obj_result, trace,
              h_in, h_out, error_handler, main_vars, wait_vars >>

\* launch_app.  import_main is the import of is_app_running_standalone, popen
\* the call of subprocess.Popen, shown the number of windows the title query
\* reports once the started process has had its startup delay.
LaunchApp(import_main, popen, shown) ==
    /\ pc = Stages[1]
    /\ CASE launch_app = "not_configured" ->
              /\ StageReturns(1, FALSE, << >>)
              /\ UNCHANGED << current_window, windows, process_running, spawned >>
         [] launch_app = "attach_window" ->
              /\ current_window' = 1
              /\ StageReturns(1, TRUE, << >>)
              /\ UNCHANGED << windows, process_running, spawned >>
         [] launch_app \in {"attach_process", "spawn"} /\ import_main = "raise" ->
              \* the import is outside of the try of launch_app
              /\ run_log' = Append(run_log, Ev("raise", 0, 0, "ImportError"))
              /\ pc' = "exception"
              /\ UNCHANGED << current_window, windows, process_running, spawned,
                              run_result >>
         [] launch_app = "attach_process" /\ import_main = "ok" ->
              /\ StageReturns(1, TRUE, << >>)
              /\ UNCHANGED << current_window, windows, process_running, spawned >>
         [] launch_app = "spawn" /\ import_main = "ok" /\ popen = "raise" ->
              /\ StageReturns(1, FALSE, << >>)
              /\ UNCHANGED << current_window, windows, process_running, spawned >>
         [] OTHER -> \* Popen started a process; _verify_app_launched
              /\ spawned' = spawned + 1
              /\ process_running' = TRUE
              /\ windows' = shown
              /\ current_window' = IF shown > 0 THEN 1 ELSE current_window
              /\ StageReturns(1, shown > 0, << Ev("popen", 0, 0, app_path) >>)
    /\ UNCHANGED << run_vars, app_name, app_path, prepare_max_retries, window_rect,
                    screen >>

\* Mutant: a moveTo that raises makes focus_window return False.
focus_window_MoveRequired(activate, restore, move) ==
    IF activate = "ok" THEN move = "ok"
    ELSE IF restore = "ok" THEN move = "ok"
    ELSE FALSE

\* The value focus_window returns once it has found a window: False when
\* activate() raised and minimize() / restore() raised too, else True; what
\* moveTo raises is caught and only printed.
focus_window(activate, restore, move) ==
    IF activate = "ok" THEN TRUE
    ELSE IF restore = "ok" THEN TRUE
    ELSE FALSE

\* The calls focus_window makes on the window it found, in order: the
\* fallback only in the except clause of activate, moveTo only when the
\* function has not returned False before.
FocusEvents(activate, restore, move) ==
    << Ev("activate", 0, 0, activate) >>
    \o (IF activate = "raise" THEN << Ev("restore", 0, 0, restore) >> ELSE << >>)
    \o (IF activate = "ok" \/ restore = "ok"
        THEN << Ev("moveTo", 0, 0, move) >> ELSE << >>)

\* focus_window.  activate, restore and move are the outcomes of
\* current_window.activate(), of minimize() and restore(), and of moveTo().
FocusWindow(activate, restore, move) ==
    /\ pc = Stages[2]
    /\ IF app_name = NoneVal \/ get_existing_windows = 0
       THEN /\ StageReturns(2, FALSE, << >>)
            /\ current_window' = current_window
       ELSE /\ current_window' = 1
            /\ StageReturns(2, focus_window(activate, restore, move),
                            FocusEvents(activate, restore, move))
    /\ UNCHANGED << run_vars, app_name, app_path, prepare_max_retries, windows,
                    process_running, spawned, window_rect, screen >>

\* maximize_window.  gesture is the outcome of the key presses, rect the size
\* the window has once they were sent.
MaximizeWindow(gesture, rect) ==
    /\ pc = Stages[3]
    /\ IF current_window = 0 \/ gesture = "raise"
       THEN /\ StageReturns(3, FALSE, << >>)
            /\ window_rect' = window_rect
       ELSE /\ window_rect' = rect
            /\ StageReturns(3, TRUE, << >>)
    /\ UNCHANGED << run_vars, app_name, app_path, current_window, prepare_max_retries,
                    windows, process_running, spawned, screen >>

\* width_ratio >= 0.8 and height_ratio >= 0.8, the ratios being the float
\* quotients window / screen.  For lengths below 2^26 the correctly rounded
\* quotient a / b is >= the double 0.8 exactly when 5a >= 4b.
\* Mutant: one axis is enough.
is_maximized_EitherAxis(rect, scr) ==
    5 * rect[1] >= 4 * scr[1] \/ 5 * rect[2] >= 4 * scr[2]

is_maximized(rect, scr) ==
    5 * rect[1] >= 4 * scr[1] /\ 5 * rect[2] >= 4 * scr[2]

\* Mutant: without configured templates the app is reported as not ready.
verify_app_ready_with_templates_EmptyFails(configured, match) ==
    IF match = "raise" THEN "false"
    ELSE IF configured = 0 THEN "false"
    ELSE IF match = "found" THEN "true"
    ELSE "false"

\* The value _verify_app_ready_with_templates returns: True without
\* configured templates, else whether one of them was found; False when
\* anything raised.
verify_app_ready_with_templates(configured, match) ==
    IF match = "raise" THEN "false"
    ELSE IF configured = 0 THEN "true"
    ELSE IF match = "found" THEN "true"
    ELSE "false"

\* What _verify_app_ready_with_templates did: an error it caught, or the
\* templates it read and, when there are any, the matching.
TemplateEvents(configured, match) ==
    IF match = "raise" THEN << Ev("templates_error", 0, 0, match) >>
    ELSE << Ev("get_verification_templates", 0, configured, "ok") >>
         \o (IF configured > 0 THEN << Ev("find_template", 0, 0, match) >> ELSE << >>)

\* verify_window_maximized on a WindowManager whose current_window is window:
\* False without a window or when reading the geometry raises, else whether
\* the rectangle passes the test, with or without the template verification.
verify_window_maximized_of(window, geometry, templates) ==
    IF window = 0 THEN FALSE
    ELSE IF geometry = "raise" THEN FALSE
    ELSE IF is_maximized(window_rect, screen) /\ templates = "true" THEN TRUE
    ELSE IF is_maximized(window_rect, screen) THEN TRUE
    ELSE FALSE

\* The value verify_window_maximized returns.  geometry is the outcome of
\* reading the window rectangle and the screen size, templates the value of
\* _verify_app_ready_with_templates.
verify_window_maximized(geometry, templates) ==
    verify_window_maximized_of(current_window, geometry, templates)

VerifyWindowMaximized(geometry, configured, match) ==
    LET templates == verify_app_ready_with_templates(configured, match)
    IN  /\ pc = Stages[4]
        /\ templates \in TemplateOutcomes
        /\ StageReturns(4, verify_window_maximized(geometry, templates),
                        IF current_window = 0 THEN << >>
                        ELSE << Ev("geometry", 0, 0, geometry) >> \o
                             (IF geometry = "ok" /\ is_maximized(window_rect, screen)
                              THEN TemplateEvents(configured, match)
                                   \o << Ev("templates", 0, 0, templates) >>
                              ELSE << >>))
        /\ UNCHANGED << run_vars, window_vars >>

\* One call of WindowManager.prepare_application, on a desktop that has any
\* number of windows of the application and has or has not its process.
InitPrepare ==
    /\ objectives = << >>
    /\ max_retries = DefaultMaxRetries
    /\ pc = Stages[1]
    /\ supported_objectives = << >>
    /\ unsupported_objectives = << >>
    /\ obj_pos = 0
    /\ current_objective = 0
    /\ action_history = << >>
    /\ act_pos = 0
    /\ obj_result = FALSE
    /\ run_result = "none"
    /\ run_log = << >>
    /\ trace = << >>
    /\ h_in = NoHandlerCall
    /\ h_out = NoHandlerResult
    /\ error_handler = "ErrorHandler"
    /\ \E app \in { << "Notepad", "notepad.exe" >>, << NoneVal, NoneVal >> } :
          app_name = app[1] /\ app_path = app[2]
    /\ current_window = 0
    /\ prepare_max_retries \in PrepareBudgets
    /\ windows \in WindowCounts
    /\ process_running \in BOOLEAN
    /\ spawned = 0
    /\ screen \in Screens
    /\ window_rect \in Rects(screen)
    /\ MainIdle
    /\ WaitIdle

NextPrepare ==
    \/ \E import_main \in {"ok", "raise"}, popen \in PopenOutcomes, shown \in {0, 1} :
          LaunchApp(import_main, popen, shown)
    \/ \E activate \in GestureOutcomes, restore \in GestureOutcomes,
          move \in GestureOutcomes : FocusWindow(activate, restore, move)
    \/ \E gesture \in GestureOutcomes, rect \in Rects(screen) : MaximizeWindow(gesture, rect)
    \/ \E geometry \in GeometryOutcomes, configured \in TemplateCounts,
          match \in MatchOutcomes : VerifyWindowMaximized(geometry, configured, match)

SpecPrepare == InitPrepare /\ [][NextPrepare]_vars

\* ----------------------------------------- execute_objective, called directly
\* One call of WorkflowExecutor.execute_objective on objectives[1], by a caller
\* other than run.  The executor was built with the ErrorHandler class, or
\* with the None that workflow.py binds to the name when its imports fail.
InitExecute ==
    /\ objectives \in { << o >> : o \in ObjectiveConfigs }
    /\ max_retries \in RetryBudgets
    /\ pc = "objective_loop"
    /\ supported_objectives = << 1 >>
    /\ unsupported_objectives = << >>
    /\ obj_pos = 1
    /\ current_objective = 0
    /\ action_history = << >>
    /\ act_pos = 0
    /\ obj_result = FALSE
    /\ run_result = "none"
    /\ run_log = << >>
    /\ trace = << >>
    /\ h_in = NoHandlerCall
    /\ h_out = NoHandlerResult
    /\ error_handler \in {"ErrorHandler", NoneVal}
    /\ WindowIdle
    /\ MainIdle
    /\ WaitIdle

NextExecute ==
    \/ StartObjective
    \/ \E outcome \in BuiltinOutcomes : DispatchBuiltin(outcome)
    \/ ActionsExhausted
    \/ \E outcome \in PrereqOutcomes : CheckPrerequisites(outcome)
    \/ \E outcome \in StepOutcomes : ExecuteAction(outcome)
    \/ \E outcome \in StepOutcomes : VerifyActionCompletion(outcome)

SpecExecute == InitExecute /\ [][NextExecute]_vars

\* ------------------------------- _check_prerequisites, prerequisite app_maximized
\* The fields WindowManager.__init__ sets: no window, no application.
FreshWindowManager == [current_window |-> 0, app_name |-> NoneVal, app_path |-> NoneVal]

\* _check_prerequisites on an action whose prerequisites are ["app_maximized"]:
\* it builds a WindowManager of its own and asks that one; an error raised in
\* the try is printed and the check goes on to return True.
check_prerequisites(construct, geometry, templates) ==
    IF construct = "raise" THEN "ok"
    ELSE IF verify_window_maximized_of(FreshWindowManager.current_window,
                                       geometry, templates)
    THEN "ok"
    ELSE "notmet"

\* The check, made once prepare_application has returned true.
CheckAppMaximized(construct, geometry, templates) ==
    /\ pc = "prepare_returned"
    /\ run_result = "true"
    /\ run_log' = run_log \o << Ev("WindowManager", 0, 0, construct),
                                Ev("check_prerequisites", 0, 0,
                                   check_prerequisites(construct, geometry, templates)) >>
    /\ pc' = "prerequisites_returned"
    /\ UNCHANGED << run_vars, window_vars, run_result >>

NextPrerequisites ==
    \/ NextPrepare
    \/ \E construct \in {"ok", "raise"}, geometry \in GeometryOutcomes,
          templates \in TemplateOutcomes : CheckAppMaximized(construct, geometry, templates)

\* prepare_application, followed by the prerequisite check of an action.
SpecPrerequisites == InitPrepare /\ [][NextPrerequisites]_vars

\* ------------------------------------------------------------------- main
\* States of the configuration file: readable JSON, absent (FileNotFoundError),
\* not JSON (the error load_config raises for it).
ConfigFiles == {"valid", "missing", "invalid"}

\* States of the entry auto_detect_app selects: all required fields, a
\* required field missing, no such entry (get_app_config raises ValueError
\* for the last two).
AppEntries == {"complete", "incomplete", "absent"}

\* ConfigManager(): load_config returns, or raises what it found.
load_config == IF config_file = "valid" THEN "ok" ELSE "raise"

\* auto_detect_app followed by get_app_config(app_name).
get_app_config == IF app_entry = "complete" THEN "ok" ELSE "ValueError"

\* Mutant: finish_automation only prints, whatever the result.
finish_automation_Absorbs(success) == 0

\* The status finish_automation leaves the process with: it returns when
\* success is true and calls sys.exit(1) otherwise.  SystemExit is not an
\* Exception, so the except clause of main does not catch it.
finish_automation(success) == IF success THEN 0 ELSE 1

\* The status handle_error leaves the process with: sys.exit(1).
handle_error == 1

\* The process of main on a configuration file in any state; the
\* instructions are read only by a run that main reaches.
InitMain ==
    /\ config_file \in ConfigFiles
    /\ app_entry \in AppEntries
    /\ config_file # "valid" => app_entry = "complete"
    /\ exit_status = -1
    /\ objective_ids = NoIds
    /\ objectives \in SeqsUpTo(ObjectiveConfigs, MaxObjectives)
    /\ (config_file # "valid" \/ app_entry # "complete") => objectives = << >>
    /\ max_retries \in RetryBudgets
    /\ pc = "main_start"
    /\ supported_objectives = << >>
    /\ unsupported_objectives = << >>
    /\ obj_pos = 0
    /\ current_objective = 0
    /\ action_history = << >>
    /\ act_pos = 0
    /\ obj_result = FALSE
    /\ run_result = "none"
    /\ run_log = << >>
    /\ trace = << >>
    /\ h_in = NoHandlerCall
    /\ h_out = NoHandlerResult
    /\ error_handler = "ErrorHandler"
    /\ WindowIdle
    /\ WaitIdle

process_vars == << objectives, max_retries, supported_objectives, unsupported_objectives,
                  obj_pos, current_objective, action_history, act_pos, obj_result,
                  trace, h_in, h_out, error_handler, window_vars, wait_vars,
                  config_file, app_entry, objective_ids >>

\* Step 1 of main: ConfigManager().
LoadConfig ==
    /\ pc = "main_start"
    /\ run_log' = Append(run_log, Ev("load_config", 0, 0, load_config))
    /\ pc' = IF load_config = "ok" THEN "get_app_config" ELSE "main_exception"
    /\ UNCHANGED << process_vars, run_result, exit_status >>

\* Steps 2 and 3 of main: auto_detect_app and get_app_config.
GetAppConfig ==
    /\ pc = "get_app_config"
    /\ run_log' = Append(run_log, Ev("get_app_config", 0, 0, get_app_config))
    /\ pc' = IF get_app_config = "ok" THEN "run_standard_automation"
             ELSE "main_exception"
    /\ UNCHANGED << process_vars, run_result, exit_status >>

\* run_standard_automation up to the call of run: the constructors return,
\* or one of them raises and the except clause returns False.
\* Mutant: run_standard_automation lets the exception reach main.
run_standard_automation_except_Propagate == "propagate"

\* except Exception as e: print(...); return False
run_standard_automation_except == "return_false"

RunStandardAutomation(outcome) ==
    /\ pc = "run_standard_automation"
    /\ run_log' = Append(run_log, Ev("SimpleAppAutomation", 0, 0, outcome))
    /\ pc' = CASE outcome = "ok" -> "run_start"
               [] outcome # "ok" /\ run_standard_automation_except = "return_false" ->
                    "run_returned"
               [] OTHER -> "main_exception"
    /\ run_result' = IF outcome # "ok" /\ run_standard_automation_except = "return_false"
                     THEN "false" ELSE run_result
    /\ UNCHANGED << process_vars, exit_status >>

\* Step 5 of main: finish_automation(success).
FinishAutomation ==
    /\ pc = "run_returned"
    /\ exit_status' = finish_automation(run_result = "true")
    /\ run_log' = Append(run_log, Ev("finish_automation", 0, 0, run_result))
    /\ pc' = "exited"
    /\ UNCHANGED << process_vars, run_result >>

\* The except clause of main: ErrorHandler(ConfigManager()).handle_error(e).
\* When the configuration cannot be loaded the constructor raises again and
\* the interpreter ends the process with a traceback and status 1.
MainExcept ==
    /\ pc = "main_exception"
    /\ exit_status' = IF load_config = "ok" THEN handle_error ELSE 1
    /\ run_log' = Append(run_log, Ev(IF load_config = "ok" THEN "handle_error"
                                      ELSE "traceback", 0, 0, "exit"))
    /\ pc' = "exited"
    /\ UNCHANGED << process_vars, run_result >>

NextMain ==
    \/ LoadConfig
    \/ GetAppConfig
    \/ \E outcome \in {"ok", "raise"} : RunStandardAutomation(outcome)
    \/ Next
    \/ FinishAutomation
    \/ MainExcept

SpecMain == InitMain /\ [][NextMain]_vars

\* The process is one thread of control and every primitive call returns, so
\* a statement that can be executed is executed.
SpecMainFair == InitMain /\ [][NextMain]_vars /\ WF_vars(NextMain)

\* ------------------------------------------------ UIDetector.wait_for_element
\* Time is counted in poll intervals: time.sleep(0.5) is a sleep of one unit.
PollInterval == 1

\* Time one call of find_template takes, and time one time.sleep(0.5) takes
\* (never less than asked for).
FindDurations == {0, 1}
SleepDurations == {PollInterval, PollInterval + 1}

\* find_template returns a location, or None (no match, or an error it caught).
FindOutcomes == {"found", "absent"}

\* Mutant: the loop gives up one poll interval early.
wait_continue_EarlyByOne(now, start, limit) == now - start + PollInterval < limit

\* The loop test of wait_for_element: time.time() - start_time < timeout.
wait_continue(now, start, limit) == now - start < limit

\* One call of wait_for_element, at any time of the clock, with any timeout
\* up to MaxTimeout.
InitWait ==
    /\ EngineIdle
    /\ action_history = << >>
    /\ pc = "wait_for_element"
    /\ run_log = << >>
    /\ trace = << >>
    /\ h_in = NoHandlerCall
    /\ h_out = NoHandlerResult
    /\ WindowIdle
    /\ MainIdle
    /\ clock \in {0, 3}
    /\ start_time = 0
    /\ timeout \in 0..MaxTimeout
    /\ location = "none"

wait_unchanged == << objectives, max_retries, supported_objectives, unsupported_objectives,
                    obj_pos, current_objective, action_history, act_pos, obj_result,
                    run_result, trace, h_in, h_out, error_handler, window_vars,
                    main_vars, timeout >>

\* start_time = time.time()
WaitBegin ==
    /\ pc = "wait_for_element"
    /\ start_time' = clock
    /\ pc' = "wait_test"
    /\ UNCHANGED << wait_unchanged, clock, location, run_log >>

\* The while test; when it fails the function prints and returns None.
WaitTest ==
    /\ pc = "wait_test"
    /\ IF wait_continue(clock, start_time, timeout)
       THEN /\ pc' = "find_template"
            /\ UNCHANGED << location, run_log >>
       ELSE /\ pc' = "wait_returned"
            /\ location' = "absent"
            /\ run_log' = Append(run_log, Ev("return", 0, clock, "absent"))
    /\ UNCHANGED << wait_unchanged, clock, start_time >>

\* location = self.find_template(...); if location: return location
FindTemplate(outcome, duration) ==
    /\ pc = "find_template"
    /\ clock' = clock + duration
    /\ run_log' = run_log \o << Ev("find_template", 0, clock, outcome) >>
                     \o (IF outcome = "found"
                         THEN << Ev("return", 0, clock + duration, "found") >>
                         ELSE << >>)
    /\ location' = IF outcome = "found" THEN "found" ELSE location
    /\ pc' = IF outcome = "found" THEN "wait_returned" ELSE "wait_sleep"
    /\ UNCHANGED << wait_unchanged, start_time >>

\* time.sleep(0.5)
WaitSleep(duration) ==
    /\ pc = "wait_sleep"
    /\ clock' = clock + duration
    /\ run_log' = Append(run_log, Ev("sleep", 0, clock, "poll_interval"))
    /\ pc' = "wait_test"
    /\ UNCHANGED << wait_unchanged, start_time, location >>

NextWait ==
    \/ WaitBegin
    \/ WaitTest
    \/ \E outcome \in FindOutcomes, duration \in FindDurations :
          FindTemplate(outcome, duration)
    \/ \E duration \in SleepDurations : WaitSleep(duration)

SpecWait == InitWait /\ [][NextWait]_vars

\* ------------------------------------------- ErrorHandler, the policy handlers
\* reversed(action_history)
Reverse(s) == [i \in 1..Len(s) |-> s[Len(s) + 1 - i]]

\* Whether an error of composing the notification leaves the notifier:
\* _notify_developer_support and _notify_user_unsupported test "enabled" on a
\* dict and do everything else inside try / except Exception.
\* Mutant: the notifier has no except clause.
notification_raises_Unguarded(outcome) == outcome = "error"

notification_raises(outcome) == FALSE

\* _go_back_one_action: what it returns, the history it leaves and whether
\* it called _notify_developer_support.
go_back_one_action(history) ==
    IF history = << >>
    THEN [value |-> FALSE, history |-> history, notified |-> FALSE]
    ELSE [value |-> TRUE, history |-> SubSeq(history, 1, Len(history) - 1),
          notified |-> FALSE]

\* _throw_error_and_notify: notifies the developer and returns False.
throw_error_and_notify == [value |-> FALSE, notified |-> TRUE]

\* _rollback_objective_and_notify: the entries it visits, in the order of
\* the visits, then one notification, then False.
rollback_objective_and_notify(history) ==
    [value |-> FALSE, visited |-> Reverse(history), notified |-> TRUE]

\* What a call left behind: the handler called, the value returned, the
\* history entries visited, whether the developer or user notification was
\* attempted, how the attempt ended, and whether an error left the handler.
PolicyResult(handler, value, visited, notified, notification) ==
    [handler |-> handler, value |-> value, visited |-> visited, notified |-> notified,
     notification |-> IF notified THEN notification ELSE "none",
     raised |-> notified /\ notification_raises(notification)]

\* One direct call of a handler of ErrorHandler, with any history of at most
\* MaxActions completed actions.
InitPolicy ==
    /\ objectives = << >>
    /\ max_retries \in RetryBudgets
    /\ supported_objectives = << >>
    /\ unsupported_objectives = << >>
    /\ obj_pos = 0
    /\ current_objective = 0
    /\ act_pos = 0
    /\ obj_result = FALSE
    /\ run_result = "none"
    /\ error_handler = "ErrorHandler"
    /\ action_history \in SeqsUpTo(1..MaxActions, MaxActions)
    /\ pc = "policy_call"
    /\ run_log = << >>
    /\ trace = << >>
    /\ h_in \in [retry_count : 0..MaxK, unsupported : {0, 1}]
    /\ h_out = NoHandlerResult
    /\ WindowIdle
    /\ MainIdle
    /\ WaitIdle

policy_unchanged == << objectives, max_retries, supported_objectives,
                      unsupported_objectives, obj_pos, current_objective, act_pos,
                      obj_result, run_result, run_log, trace, h_in, error_handler,
                      window_vars, main_vars, wait_vars >>

PolicyReturns(result, history) ==
    /\ pc = "policy_call"
    /\ h_out' = result
    /\ action_history' = history
    /\ pc' = "policy_returned"
    /\ UNCHANGED policy_unchanged

CallGoBackOneAction ==
    LET r == go_back_one_action(action_history)
    IN  PolicyReturns(PolicyResult("go_back_one", r.value, << >>, r.notified, "none"),
                      r.history)

CallThrowErrorAndNotify(notification) ==
    LET r == throw_error_and_notify
    IN  PolicyReturns(PolicyResult("throw_error", r.value, << >>, r.notified,
                                   notification), action_history)

CallRollbackObjectiveAndNotify(notification) ==
    LET r == rollback_objective_and_notify(action_history)
    IN  PolicyReturns(PolicyResult("rollback", r.value, r.visited, r.notified,
                                   notification), action_history)

\* handle_action_failure, with the outcome of the notification it may send.
CallActionFailure(notification) ==
    LET r == handle_action_failure(Action("type_text", NoneVal), action_history,
                                   [retry_policy |-> NoneVal], h_in.retry_count)
    IN  PolicyReturns(PolicyResult("handle_action_failure", r.retry, << >>,
                                   r.notified, notification), action_history)

\* handle_objective_failure, which always notifies.
CallObjectiveFailure(notification) ==
    PolicyReturns(PolicyResult("handle_objective_failure", handle_objective_failure,
                               << >>, TRUE, notification), action_history)

\* handle_unsupported_objectives on a list of h_in.unsupported objectives.
CallUnsupportedObjectives(notification) ==
    LET unsupported == [i \in 1..h_in.unsupported |-> i]
    IN  PolicyReturns(PolicyResult("handle_unsupported_objectives",
                                   handle_unsupported_objectives(unsupported, notification),
                                   << >>, unsupported # << >>, notification),
                      action_history)

NextPolicy ==
    \/ CallGoBackOneAction
    \/ \E notification \in NotificationOutcomes : CallThrowErrorAndNotify(notification)
    \/ \E notification \in NotificationOutcomes :
          CallRollbackObjectiveAndNotify(notification)
    \/ \E notification \in NotificationOutcomes : CallActionFailure(notification)
    \/ \E notification \in NotificationOutcomes : CallObjectiveFailure(notification)
    \/ \E notification \in NotificationOutcomes : CallUnsupportedObjectives(notification)

SpecPolicy == InitPolicy /\ [][NextPolicy]_vars

\* ====================================================================
\* Properties
\* ====================================================================
\* The trace of the current objective holds the event.
Has(op, k, i, res) == \E n \in 1..Len(trace) : trace[n] = Ev(op, k, i, res)

\* run_log holds the event.
RunHas(op, k, i, res) == \E n \in 1..Len(run_log) : run_log[n] = Ev(op, k, i, res)

\* Action i of objective k was dispatched with success and then verified.
ActionPassed(k, i) ==
    \E a, b \in 1..Len(trace) :
        /\ a < b
        /\ trace[a] = Ev("dispatch", k, i, "true")
        /\ trace[b] = Ev("verify", k, i, "true")

\* Developer notifications dispatched for objective k, by either handler.
NotificationsFor(k) == { n \in RunAt("notify_developer") : run_log[n].obj = k }

\* The built-in function of objective k failed: it returned false or raised.
BuiltinFailed(k) == Has("builtin", k, 0, "false") \/ Has("builtin", k, 0, "raise")

\* C1: within one objective, action i+1 is dispatched only after the dispatch
\* of action i returned success and the verification of action i returned true.
C1_SequentialOrdering ==
    \A n \in At("dispatch") :
        LET k == trace[n].obj
            i == trace[n].act
        IN  i > 1 =>
              \E a, b \in 1..(n - 1) :
                  /\ a < b
                  /\ trace[a] = Ev("dispatch", k, i - 1, "true")
                  /\ trace[b] = Ev("verify", k, i - 1, "true")

\* C1 witness: the last action of a full list has been dispatched.
C1_Witness ==
    \E n \in At("dispatch") : trace[n].act = MaxActions /\ trace[n].res = "true"

\* C2: _execute_objective_actions returns success only if every action was
\* dispatched with success and verified, and never when a dispatch failed or
\* raised, whatever max_retries is.
C2_SuccessOnlyIfAllActionsPassed ==
    \A n \in At("actions_return") :
        LET k == trace[n].obj
        IN  trace[n].res = "true" =>
              /\ \A i \in 1..Len(ActionsOf(objectives[k])) : ActionPassed(k, i)
              /\ \A i \in 1..Len(ActionsOf(objectives[k])) :
                    ~Has("dispatch", k, i, "false") /\ ~Has("dispatch", k, i, "raise")

\* C3: once the failure handler has answered RETRY for an action, the same
\* action is dispatched again before the action list returns.
C3_RetryReattemptsSameAction ==
    \A n \in At("handle_action_failure") :
        trace[n].res = "retry" =>
          \A m \in (n + 1)..Len(trace) :
              (trace[m].op = "actions_return" /\ trace[m].obj = trace[n].obj) =>
                \E j \in (n + 1)..(m - 1) :
                    /\ trace[j].op = "dispatch"
                    /\ trace[j].obj = trace[n].obj
                    /\ trace[j].act = trace[n].act

\* C4: for max_retries = k the handler answers retry exactly for the attempt
\* counts 0..k-1, whatever policy the action, the objective or the default names.
C4_RetryExactlyBelowBudget ==
    pc = "handler_returned" =>
        /\ h_out.called
        /\ h_out.retry = (h_in.retry_count \in 0..(max_retries - 1))

\* C4 witness: the budget is just exhausted although every tier says retry.
C4_Witness ==
    /\ pc = "handler_returned"
    /\ max_retries > 0
    /\ h_in.retry_count = max_retries
    /\ h_in.action.retry_policy = "retry"
    /\ h_in.objective_policy = "retry"
    /\ h_in.default_policy = "retry"
    /\ ~h_out.retry

\* C5: when a supported objective has failed, it is recorded as failed and
\* notified, and every supported objective after it is still executed.
C5_FailedObjectiveDoesNotStopLater ==
    pc = "run_returned" =>
      \A n \in RunAt("objective_result") :
          run_log[n].res = "false" =>
            /\ NotificationsFor(run_log[n].obj) # {}
            /\ \A p, q \in 1..Len(supported_objectives) :
                  (q < p /\ supported_objectives[q] = run_log[n].obj) =>
                    \E m \in RunAt("execute_objective") :
                        run_log[m].obj = supported_objectives[p]

\* C6: scenario B.  The built-in of an objective raises, its list has 3
\* actions, action 1 passes, the dispatch of action 2 fails and max_retries
\* is 0: the objective is reported failed after exactly one notification of
\* the whole run, and action 3 is never dispatched.
C6_ScenarioB ==
    \A k \in 1..Len(objectives) :
        ( /\ pc = "run_returned"
          /\ max_retries = 0
          /\ Len(ActionsOf(objectives[k])) = 3
          /\ Has("builtin", k, 0, "raise")
          /\ ActionPassed(k, 1)
          /\ Has("dispatch", k, 2, "false") )
        => /\ RunHas("objective_result", k, 0, "false")
           /\ Cardinality(RunAt("notify_developer")) = 1
           /\ \A n \in At("dispatch") : ~(trace[n].obj = k /\ trace[n].act = 3)

\* C7: an objective that ended in failure has exactly one developer
\* notification, counting the action handler and the objective handler.
C7_ExactlyOneNotification ==
    \A n \in RunAt("objective_result") :
        run_log[n].res = "false" => Cardinality(NotificationsFor(run_log[n].obj)) = 1

\* C8: a built-in that returns true ends the objective with success and no
\* action of the list is touched; a built-in that returns false or raises
\* propagates nothing, the action list is run and what it returns is what
\* execute_objective returns.
C8_BuiltinFallback ==
    \A n \in At("builtin") :
        LET k == trace[n].obj
            returns == { m \in At("actions_return") : trace[m].obj = k }
        IN  /\ trace[n].res = "true" =>
                /\ \A m \in 1..Len(trace) :
                      trace[m].op \notin {"prereq", "dispatch", "verify", "actions_return"}
                /\ pc = "objective_returned" => obj_result
                /\ ~RunHas("objective_result", k, 0, "false")
            /\ trace[n].res # "true" =>
                /\ ~(pc \in {"exception", "run_returned"} /\ n = Len(trace))
                /\ pc \in {"action_loop", "dispatch", "verify"} \/ returns # {}
                /\ pc = "objective_returned" =>
                      \E m \in returns : obj_result = (trace[m].res = "true")
                /\ \A r \in RunAt("objective_result") :
                      run_log[r].obj = k =>
                        \E m \in returns : trace[m].res = run_log[r].res

\* C8 witness: the built-in of an objective raised, its action list was run
\* and failed, and the objective was reported with that failure.
C8_Witness ==
    \E k \in 1..Len(objectives) :
        /\ Has("builtin", k, 0, "raise")
        /\ Has("dispatch", k, 1, "true")
        /\ Has("actions_return", k, 0, "false")
        /\ RunHas("objective_result", k, 0, "false")

\* C9: when the built-in fails and the objective has no action list (absent or
\* empty), execute_objective reports the objective as failed.
C9_BuiltinFailedNoActionsFails ==
    \A k \in 1..Len(objectives) :
        ( /\ pc = "objective_returned"
          /\ current_objective = k
          /\ BuiltinFailed(k)
          /\ Len(ActionsOf(objectives[k])) = 0 )
        => ~obj_result

\* Objectives of the file whose supported flag is false or missing.
FlaggedUnsupported == { k \in 1..Len(objectives) : objectives[k].supported # "true" }

\* C10: execute_objective is never invoked on an objective whose supported
\* flag is false or missing, and the number of objectives reported as
\* unsupported is the number of objectives with that flag.
C10_UnsupportedPartition ==
    /\ \A n \in RunAt("execute_objective") : objectives[run_log[n].obj].supported = "true"
    /\ \A n \in RunAt("handle_unsupported_objectives") :
          run_log[n].act = Cardinality(FlaggedUnsupported)
    /\ RunHas("parse_objectives", 0, 0, "loaded") =>
          /\ Len(unsupported_objectives) = Cardinality(FlaggedUnsupported)
          /\ FlaggedUnsupported # {} => RunAt("handle_unsupported_objectives") # {}

\* C10 witness: a mixed list, one objective executed, one without the flag
\* reported.
C10_Witness ==
    /\ pc = "run_returned"
    /\ RunAt("execute_objective") # {}
    /\ \E k \in FlaggedUnsupported : objectives[k].supported = "missing"
    /\ \E n \in RunAt("handle_unsupported_objectives") : run_log[n].act >= 1

\* C11: when preparation succeeded, the objectives were parsed and every
\* supported objective succeeded (there may be none), run returns true,
\* however many objectives were reported as unsupported and whatever became
\* of the notification about them.
C11_UnsupportedDoNotFailRun ==
    ( /\ pc = "run_returned"
      /\ RunHas("prepare", 0, 0, "true")
      /\ RunHas("parse_objectives", 0, 0, "loaded")
      /\ \A k \in 1..Len(objectives) :
            objectives[k].supported = "true" => RunHas("objective_result", k, 0, "true") )
    => run_result = "true"

\* C11 witness: an objective was reported as unsupported, the notification
\* was not sent, a supported objective succeeded and run returned true.
C11_Witness ==
    /\ pc = "run_returned"
    /\ run_result = "true"
    /\ \E n \in RunAt("notify_user_unsupported") :
          run_log[n].act >= 1 /\ run_log[n].res # "sent"
    /\ \E n \in RunAt("objective_result") : run_log[n].res = "true"

\* The event is a failure of an action: a dispatch or a verification that
\* returned false, or a step that raised.
IsActionFailure(e) ==
    \/ e.op \in {"dispatch", "verify"} /\ e.res = "false"
    \/ e.op \in {"prereq", "dispatch", "verify"} /\ e.res = "raise"

\* C18: every failure of an action (dispatch false, verification false, an
\* error raised) is followed by a call of the failure handler for that action
\* before the action list returns.
C18_FailuresConsultHandler ==
    \A m \in At("actions_return") :
        \A n \in 1..(m - 1) :
            IsActionFailure(trace[n]) =>
              \E j \in (n + 1)..(m - 1) :
                  /\ trace[j].op = "handle_action_failure"
                  /\ trace[j].act = trace[n].act

\* C19: an error raised by the prerequisite check, the dispatch or the
\* verification of an action never leaves execute_objective: the failure
\* handler is called for it and execute_objective returns a boolean.
C19_ActionErrorsNeverPropagate ==
    \A n \in 1..Len(trace) :
        (trace[n].op \in {"prereq", "dispatch", "verify"} /\ trace[n].res = "raise") =>
          /\ pc # "exception"
          /\ \E j \in (n + 1)..Len(trace) :
                trace[j].op = "handle_action_failure" /\ trace[j].act = trace[n].act
          /\ \E m \in (n + 1)..Len(trace) :
                trace[m].op = "actions_return" /\ trace[m].res \in {"true", "false"}

\* C20: run never propagates an error.  Every exception that reaches it is
\* logged and turned into the result false, and run returns true or false.
C20_RunNeverPropagates ==
    /\ run_result \in {"none", "true", "false"}
    /\ pc = "run_returned" => run_result \in {"true", "false"}
    /\ \A n \in RunAt("raise") :
          \/ pc = "exception" /\ n = Len(run_log)
          \/ /\ pc = "run_returned"
             /\ run_result = "false"
             /\ n + 1 = Len(run_log)
             /\ run_log[n + 1] = Ev("log_error", 0, 0, "AUTOMATION_ERROR")

\* C20 witness: the second objective raised in execute_objective after the
\* first one succeeded, and run returned false.
C20_Witness ==
    /\ pc = "run_returned"
    /\ run_result = "false"
    /\ RunHas("objective_result", 1, 0, "true")
    /\ RunHas("raise", 2, 0, "KeyError")
    /\ RunAt("log_error") # {}

\* C12: launch_app starts a process only in a state in which the title query
\* reports no window and no process of the application is running, and
\* then starts exactly one.
C12_IdempotentAttach ==
    [][ spawned' # spawned =>
          /\ windows = 0
          /\ ~process_running
          /\ spawned' = spawned + 1 ]_vars

\* C12 witness: launch_app has attached to a window that was there, no
\* process was started.
C12_Witness ==
    /\ RunHas("launch_app", 0, 0, "true")
    /\ windows >= 1
    /\ current_window # 0
    /\ spawned = 0

\* The stages run so far, in order, each with what it returned.
StageEvents == SelectSeq(run_log, LAMBDA e : \E n \in 1..Len(Stages) : e.op = Stages[n])

\* C13: the stages run in the order launch, focus, maximize, verify; no
\* stage runs after one that returned false, which makes prepare_application
\* return false; it returns true if and only if all four returned true.
C13_StagesInOrder ==
    LET st == StageEvents
    IN  /\ Len(st) <= Len(Stages)
        /\ \A n \in 1..Len(st) : st[n].op = Stages[n]
        /\ \A n \in 1..(Len(st) - 1) : st[n].res = "true"
        /\ (Len(st) > 0 /\ st[Len(st)].res = "false") =>
              pc = "prepare_returned" /\ run_result = "false"
        /\ pc = "prepare_returned" =>
              (run_result = "true") =
                (Len(st) = Len(Stages) /\ \A n \in 1..Len(st) : st[n].res = "true")

\* C13 witness: all four stages have run and prepare_application returned true.
C13_Witness ==
    /\ pc = "prepare_returned"
    /\ run_result = "true"
    /\ Len(StageEvents) = Len(Stages)

\* C14: prepare_application fails on a launch failure, or on a focus that
\* found no window, only when that stage has been attempted as often as the
\* budget max_retries allows.
C14_FailureOnlyAfterBudget ==
    ( /\ pc = "prepare_returned"
      /\ run_result = "false"
      /\ app_name # NoneVal )
    => /\ RunHas("launch_app", 0, 0, "false") =>
             Cardinality(RunAt("launch_app")) >= prepare_max_retries
       /\ (RunHas("focus_window", 0, 0, "false") /\ windows = 0) =>
             Cardinality(RunAt("focus_window")) >= prepare_max_retries

\* C15: with a current window whose geometry can be read,
\* verify_window_maximized returns true if and only if the window has at
\* least 80 % of the width and at least 80 % of the height of the screen;
\* what the template verification returned is no part of the condition.
C15_MaximizedIffBothAxes ==
    \A n \in RunAt(Stages[4]) :
        (current_window # 0 /\ RunHas("geometry", 0, 0, "ok")) =>
          (run_log[n].res = "true") =
            ( /\ 100 * window_rect[1] >= 80 * screen[1]
              /\ 100 * window_rect[2] >= 80 * screen[2] )

\* C15 witness: a window of exactly 80 % by 81 % of the screen was verified
\* as maximized although the template verification returned false.
C15_Witness ==
    /\ screen = << 100, 100 >>
    /\ window_rect = << 80, 81 >>
    /\ RunHas("templates", 0, 0, "false")
    /\ RunHas(Stages[4], 0, 0, "true")

\* The four policies the failure handler knows.
RecognizedPolicies == {"retry", "throw_error", "rollback", "go_back_one"}

\* The first tier that names a policy, in the order action, objective,
\* configured default, and throw_error when none does.
FirstPresentTier(call) ==
    IF call.action.retry_policy # NoneVal THEN call.action.retry_policy
    ELSE IF call.objective_policy # NoneVal THEN call.objective_policy
    ELSE IF call.default_policy # NoneVal THEN call.default_policy
    ELSE "throw_error"

\* C16: when each of the three tiers is absent or names one of the four
\* policies, _determine_failure_policy returns the policy of the first tier
\* that is present, and throw_error when none is.
C16_PolicyPrecedence ==
    ( /\ pc = "policy_returned"
      /\ h_in.action.retry_policy \in RecognizedPolicies \cup {NoneVal}
      /\ h_in.objective_policy \in RecognizedPolicies \cup {NoneVal}
      /\ h_in.default_policy \in RecognizedPolicies \cup {NoneVal} )
    => h_out.policy = FirstPresentTier(h_in)

\* C17: _determine_failure_policy never raises, whatever strings the tiers
\* hold: it returns one of the four policies.
C17_ResolutionNeverFails ==
    pc = "policy_returned" => h_out.policy \in RecognizedPolicies

\* ------------------------------------------------------- main (SpecMain)
\* The run failed: preparation returned false, or an objective did.
RunFailedInside ==
    \/ RunHas("prepare", 0, 0, "false")
    \/ \E n \in RunAt("objective_result") : run_log[n].res = "false"

\* C21: the process exits with a non-zero status only when the configuration
\* cannot be loaded or the application cannot be resolved; a run in which
\* preparation or some objective failed does not end the process with a
\* non-zero status.
C21_NonZeroOnlyOnConfigOrApp ==
    (pc = "exited" /\ exit_status # 0) =>
        (load_config # "ok" \/ get_app_config # "ok")

\* C21, amended: the process exits with status 0 exactly when run returned
\* true, and with status 1 when the configuration cannot be loaded, the
\* application cannot be resolved, the automation cannot be built or the run
\* returned false.
C21_ExitStatusFollowsResult ==
    pc = "exited" =>
        /\ exit_status \in {0, 1}
        /\ exit_status = 0 <=> run_result = "true"
        /\ (load_config # "ok" \/ get_app_config # "ok") => exit_status = 1

\* C21 witness: preparation returned false and the process exited with 1,
\* on a configuration that loads and names the application.
C21_Witness ==
    /\ pc = "exited"
    /\ exit_status = 1
    /\ load_config = "ok" /\ get_app_config = "ok"
    /\ RunFailedInside

\* C22: a missing or invalid application definition or objective definition,
\* an unreadable or invalid instructions file included, aborts the run
\* before the application is launched and before anything executes, and the
\* run does not report success.
C22_InvalidDefinitionsAreFatal ==
    LET invalid == \/ load_config # "ok"
                   \/ get_app_config # "ok"
                   \/ RunHas("parse_objectives", 0, 0, "unreadable")
                   \/ \E k \in 1..Len(objectives) : objectives[k].app = NoneVal
    IN  invalid =>
          /\ RunAt("prepare") = {}
          /\ trace = << >>
          /\ run_result # "true"

\* -------------------------------------------- prepare_application, scenario A
\* The desktop of scenario A, as the log and the state show it once
\* prepare_application has returned: the application was not running, so
\* its process was started; the process showed a window; the window could
\* be activated; the maximize gesture made it fill the screen; its geometry
\* could be read; no verification template is configured.
ScenarioA ==
    /\ pc = "prepare_returned"
    /\ RunHas("popen", 0, 0, app_path)
    /\ windows = 1
    /\ RunHas("activate", 0, 0, "ok")
    /\ RunHas(Stages[3], 0, 0, "true")
    /\ window_rect = screen
    /\ RunHas("geometry", 0, 0, "ok")
    /\ RunHas("get_verification_templates", 0, 0, "ok")

\* C23: in scenario A prepare_application starts the process exactly once,
\* focuses, maximizes and returns true, and the template verification is
\* satisfied without any matching.
C23_ScenarioA ==
    ScenarioA =>
        /\ run_result = "true"
        /\ spawned = 1
        /\ Cardinality(RunAt("popen")) = 1
        /\ Len(StageEvents) = Len(Stages)
        /\ \A n \in 1..Len(Stages) : StageEvents[n] = Ev(Stages[n], 0, 0, "true")
        /\ RunHas("templates", 0, 0, "true")
        /\ RunAt("find_template") = {}

\* C23 witness: scenario A has run to the end on a desktop that had neither
\* a window nor a process of the application.
C23_Witness ==
    /\ ScenarioA
    /\ spawned = 1
    /\ run_result = "true"

\* ------------------------------------------------------------ focus_window
\* C30: focus_window returns false exactly when no window with the title
\* exists or when activation and the minimize / restore fallback both failed;
\* the fallback is attempted only after activation failed; a moveTo that
\* fails never makes it return false.
C30_FocusFallback ==
    \A n \in RunAt(Stages[2]) :
        /\ (run_log[n].res = "false") =
              ( \/ get_existing_windows = 0
                \/ RunHas("activate", 0, 0, "raise") /\ RunHas("restore", 0, 0, "raise") )
        /\ \A r \in RunAt("restore") :
              r < n /\ \E a \in 1..(r - 1) : run_log[a] = Ev("activate", 0, 0, "raise")
        /\ RunHas("moveTo", 0, 0, "raise") => run_log[n].res = "true"

\* C30 witness: the window was focused by the fallback and could not be moved.
C30_Witness ==
    /\ RunHas("activate", 0, 0, "raise")
    /\ RunHas("restore", 0, 0, "ok")
    /\ RunHas("moveTo", 0, 0, "raise")
    /\ RunHas(Stages[2], 0, 0, "true")

\* -------------------------------------------------------- wait_for_element
\* The polls of the call so far, in order.
Polls == SelectSeq(run_log, LAMBDA e : e.op = "find_template")

\* C24: wait_for_element returns the location at the first poll that
\* matches; it returns absent only when the time elapsed since the call has
\* reached the timeout, never before, and until then it polls again after
\* each sleep of one poll interval.
C24_AbsentOnlyAfterTimeout ==
    /\ location = "found" =>
          /\ Len(Polls) > 0
          /\ Polls[Len(Polls)].res = "found"
          /\ \A n \in 1..(Len(Polls) - 1) : Polls[n].res = "absent"
    /\ location = "absent" =>
          /\ clock - start_time >= timeout
          /\ \A n \in 1..Len(Polls) : Polls[n].res = "absent"
    /\ \A n \in 1..(Len(run_log) - 1) :
          /\ (run_log[n].op = "find_template" /\ run_log[n].res = "absent") =>
                run_log[n + 1].op = "sleep"
          /\ run_log[n].op = "sleep" =>
                \/ run_log[n + 1].op = "find_template"
                \/ run_log[n + 1] = Ev("return", 0, clock, "absent")
    /\ (pc = "wait_returned") = (location # "none")

\* C24 witness: a template that never matched, waited for with the timeout
\* of 2 s, was reported absent after four polls.
C24_Witness ==
    /\ pc = "wait_returned"
    /\ location = "absent"
    /\ timeout = 4
    /\ clock - start_time = timeout
    /\ Len(Polls) = 4

\* -------------------------------------------------- the policy handlers
\* C25: with a non-empty history _go_back_one_action removes exactly the
\* most recent entry and answers continue; with an empty history it does
\* what THROW_ERROR does: it answers stop and notifies the developer.
C25_GoBackOne ==
    [][(pc = "policy_call" /\ pc' = "policy_returned" /\ h_out'.handler = "go_back_one") =>
          IF action_history # << >>
          THEN /\ h_out'.value
               /\ action_history' = SubSeq(action_history, 1, Len(action_history) - 1)
          ELSE /\ h_out'.value = throw_error_and_notify.value
               /\ h_out'.notified = throw_error_and_notify.notified]_vars

\* C26: when the policy resolved for a failed action is rollback, the engine
\* gets the answer of the rollback handler: stop, after one notification.
C26_RollbackInvokedOnPolicy ==
    (pc = "handler_returned" /\ FirstPresentTier(h_in) = "rollback") =>
        /\ h_out.retry = rollback_objective_and_notify(<< >>).value
        /\ h_out.notified = rollback_objective_and_notify(<< >>).notified

\* C29: whether the notification is sent, disabled, unconfigured or fails,
\* handle_action_failure, handle_objective_failure and
\* handle_unsupported_objectives return the same value, and no error of the
\* notification leaves them.
C29_NotificationIsAdvisory ==
    pc = "policy_returned" =>
        /\ ~h_out.raised
        /\ h_out.handler = "handle_action_failure" =>
              h_out.value = (h_in.retry_count < max_retries)
        /\ h_out.handler = "handle_objective_failure" => h_out.value = FALSE
        /\ h_out.handler = "handle_unsupported_objectives" => h_out.value = TRUE

\* C29 witness: handle_unsupported_objectives returned although composing
\* the notification failed.
C29_Witness ==
    /\ pc = "policy_returned"
    /\ h_out.handler = "handle_unsupported_objectives"
    /\ h_out.notification = "error"
    /\ h_out.value

\* ----------------------------------------------------------- ActionHistory
\* Action i of the current objective was dispatched with success and then
\* verified.
Completed(i) ==
    \E b \in 1..Len(trace) :
        /\ trace[b] = Ev("verify", current_objective, i, "true")
        /\ \E a \in 1..(b - 1) : trace[a] = Ev("dispatch", current_objective, i, "true")

\* C27: action_history is empty when execute_objective starts, and at every
\* point of the objective it lists, in order, exactly the actions of the
\* current objective that were dispatched with success and passed
\* verification, a prefix of the action list; nothing of an earlier
\* objective is in it.
C27_ActionHistory ==
    /\ \A i \in 1..Len(action_history) : action_history[i] = i
    /\ current_objective = 0 => action_history = << >>
    /\ current_objective # 0 =>
          \A i \in 1..Len(CurrentActions) : Completed(i) = (i <= Len(action_history))
    /\ current_objective # 0 => Len(action_history) <= Len(CurrentActions)
    /\ trace = << >> => action_history = << >>

\* C27 witness: the second objective of the run has completed its first
\* action, after a first objective whose actions all completed.
C27_Witness ==
    /\ Len(supported_objectives) >= 2
    /\ obj_pos = 2
    /\ current_objective = supported_objectives[2]
    /\ action_history = << 1 >>
    /\ LET first == objectives[supported_objectives[1]]
       IN  /\ first.id \notin function_dispatcher
           /\ Len(ActionsOf(first)) = MaxActions
    /\ RunHas("objective_result", supported_objectives[1], 0, "true")

\* ------------------------------------------- the prerequisite app_maximized
\* C28: the check of the prerequisite app_maximized passes whenever the
\* prepared window has at least 80 % of the screen on both axes, and an
\* error raised by the check itself does not block the action.
C28_AppMaximizedPrerequisite ==
    pc = "prerequisites_returned" =>
        /\ (current_window # 0 /\ is_maximized(window_rect, screen)
               /\ RunHas("WindowManager", 0, 0, "ok")) =>
              RunHas("check_prerequisites", 0, 0, "ok")
        /\ RunHas("WindowManager", 0, 0, "raise") =>
              RunHas("check_prerequisites", 0, 0, "ok")


\* ---------------------------------------------------------------------------
\* Order of the stages of run
\* ---------------------------------------------------------------------------

\* Event n of the run log belongs to the parsing or execution of objectives.
ObjectiveWork(n) ==
    run_log[n].op \in {"parse_objectives", "execute_objective", "objective_result"}

\* C31: in every run, no objective is parsed or executed before
\* prepare_application has returned true; cleanup_screenshots starts only
\* after execute_objectives has returned and no objective work follows it;
\* when preparation returned false, run returns false and no objective was
\* parsed or executed.
C31_StagesInOrder ==
    /\ \A n \in 1..Len(run_log) :
          ObjectiveWork(n) =>
              \E m \in 1..(n - 1) : run_log[m] = Ev("prepare", 0, 0, "true")
    /\ \A n \in 1..Len(run_log) :
          run_log[n].op = "cleanup_screenshots" =>
              /\ \E m \in 1..(n - 1) : run_log[m].op = "execute_objectives"
              /\ \A j \in (n + 1)..Len(run_log) : ~ObjectiveWork(j)
    /\ RunHas("prepare", 0, 0, "false") =>
          /\ \A n \in 1..Len(run_log) : ~ObjectiveWork(n)
          /\ run_result = "false"
          /\ pc \in {"run_returned", "exited"}

\* A run that prepared, executed an objective and then cleaned up.
C31_Witness ==
    /\ RunHas("prepare", 0, 0, "true")
    /\ RunAt("execute_objective") # {}
    /\ RunAt("cleanup_screenshots") # {}
    /\ pc = "run_returned"

\* ---------------------------------------------------------------------------
\* Termination
\* ---------------------------------------------------------------------------

\* The process has printed one of the two closing lines of finish_automation.
ProcessCompleted ==
    /\ pc = "exited"
    /\ run_result \in {"true", "false"}
    /\ RunHas("finish_automation", 0, 0, run_result)

\* C32: every run terminates: the process ends, and when it has called
\* run_standard_automation it ends with run's result being true or false and
\* with the report "completed successfully" or "completed with errors",
\* whatever the objectives and whatever actions fail.
C32_EveryRunTerminates ==
    <>(/\ pc = "exited"
       /\ RunAt("SimpleAppAutomation") # {} => ProcessCompleted)

\* A run in which an action failed has ended with a report.
C32_Witness ==
    /\ ProcessCompleted
    /\ RunAt("execute_objective") # {}
    /\ At("handle_action_failure") # {}

\* ---------------------------------------------------------------------------
\* Screenshot cleanup
\* ---------------------------------------------------------------------------

\* C33: cleanup_screenshots is invoked in a run exactly when
\* prepare_application returned true and execute_objectives returned true: a
\* cleanup event is always preceded by both, a run that has returned after
\* both has cleaned up, and a run in which preparation failed or
\* execute_objectives returned false has no cleanup event.
C33_CleanupExactlyOnSuccess ==
    /\ RunAt("cleanup_screenshots") # {} =>
          /\ RunHas("prepare", 0, 0, "true")
          /\ RunHas("execute_objectives", 0, 0, "true")
    /\ pc \in {"run_returned", "exited"} /\ RunHas("execute_objectives", 0, 0, "true") =>
          RunAt("cleanup_screenshots") # {}
    /\ RunHas("prepare", 0, 0, "false") \/ RunHas("execute_objectives", 0, 0, "false") =>
          RunAt("cleanup_screenshots") = {}

\* A run whose objectives all succeeded has cleaned up and returned true.
C33_Witness ==
    /\ RunHas("execute_objectives", 0, 0, "true")
    /\ RunAt("objective_result") # {}
    /\ RunAt("cleanup_screenshots") # {}
    /\ run_result = "true"

\* ---------------------------------------------------------------------------
\* launch_app and the window it holds
\* ---------------------------------------------------------------------------

\* launch_app has just returned true.
LaunchReturnedTrue ==
    /\ Len(run_log) > 0
    /\ run_log[Len(run_log)] = Ev(Stages[1], 0, 0, "true")

\* C34: whenever launch_app returns true, current_window refers to an
\* existing window of the application, also when launch_app attached to a
\* process that was already running.
C34_LaunchSuccessHoldsWindow ==
    LaunchReturnedTrue => current_window \in 1..windows

\* ---------------------------------------------------------------------------
\* Selection of objectives by id
\* ---------------------------------------------------------------------------

\* C35: when a list of objective ids is passed to run, only objectives whose
\* id is in the list are executed or reported as unsupported, for every list,
\* the empty list (which selects no objective) included.
C35_OnlyListedObjectives ==
    objective_ids.given =>
        /\ \A n \in RunAt("execute_objective") :
              objectives[run_log[n].obj].id \in objective_ids.ids
        /\ \A j \in 1..Len(unsupported_objectives) :
              objectives[unsupported_objectives[j]].id \in objective_ids.ids

\* ---------------------------------------------------------------------------
\* execute_objective on an unsupported objective
\* ---------------------------------------------------------------------------

\* C36: execute_objective called on an objective whose supported flag is
\* false or missing returns false without raising, and dispatches neither the
\* built-in implementation nor any action of the objective.
C36_UnsupportedReturnsFalse ==
    (~IsSupported(objectives[1]) /\ RunAt("execute_objective") # {}) =>
        /\ pc = "objective_returned"
        /\ obj_result = FALSE
        /\ RunAt("raise") = {}
        /\ At("builtin") = {}
        /\ At("dispatch") = {}

\* ---------------------------------------------------------------------------
\* The application an objective is written for
\* ---------------------------------------------------------------------------

\* C37: every objective executed in a run targets the application the run
\* prepared: execute_objective is never invoked on an objective whose app
\* field differs from the app name given to SimpleAppAutomation.
C37_ExecutedObjectivesTargetApp ==
    \A n \in RunAt("execute_objective") :
        objectives[run_log[n].obj].app \in {app_name, NoneVal}
====
